---- MODULE Spec2Model ----
(***************************************************************************)
(* A model of package wire of natefinch/keep: the JSON codec for Google    *)
(* Keep's wire protocol (src/wire/protocol.go).                            *)
(*                                                                         *)
(* A []byte is a sequence of one-character strings, so that bytes.Equal is *)
(* equality of sequences and a write through a slice is an EXCEPT.  The    *)
(* package-level []byte variables are the state `tab`; `res` records the   *)
(* last call any caller made: its receiver before and after, its argument, *)
(* the bytes and error it returned, and the package variable the returned  *)
(* slice shares its backing array with.                                    *)
(***************************************************************************)
EXTENDS Integers, Sequences, FiniteSets, TLC

VARIABLES tab, res, writes

vars == <<tab, res, writes>>

(* ------------------------------------------------------------------ *)
(* Bounds of the model                                                 *)
(* ------------------------------------------------------------------ *)

\* Number of callers (goroutines) that use the codec.
NumCallers == 2

\* How many times callers write into a byte slice an encoder returned.
MaxWrites == 1

\* A caller's write hits one of the first MaxWriteIdx bytes of the slice.
MaxWriteIdx == 2

Callers == 1..NumCallers

(* ------------------------------------------------------------------ *)
(* Package-level wire values, src/wire/protocol.go:9-41                *)
(* ------------------------------------------------------------------ *)

Q == "\""

nodekind == <<Q,"n","o","t","e","s","#","n","o","d","e",Q>>
tskind == <<Q,"n","o","t","e","s","#","t","i","m","e","s","t","a","m","p","s",Q>>
notetype == <<Q,"N","O","T","E",Q>>
listtype == <<Q,"L","I","S","T",Q>>
itemtype == <<Q,"L","I","S","T","_","I","T","E","M",Q>>
tszero == <<Q,"1","9","7","0","-","0","1","-","0","1","T","0","0",":","0","0",":","0","0",".","0","0","0","Z",Q>>
notDismissedVal == <<Q,"I","N","I","T","I","A","L",Q>>
dismissedVal == <<Q,"D","I","S","M","I","S","S","E","D",Q>>
morningVal == <<Q,"M","O","R","N","I","N","G",Q>>
afternoonVal == <<Q,"A","F","T","E","R","N","O","O","N",Q>>
eveningVal == <<Q,"E","V","E","N","I","N","G",Q>>
nightVal == <<Q,"N","I","G","H","T",Q>>
defaultVal == <<Q,"D","E","F","A","U","L","T",Q>>
redVal == <<Q,"R","E","D",Q>>
orangeVal == <<Q,"O","R","A","N","G","E",Q>>
yellowVal == <<Q,"Y","E","L","L","O","W",Q>>
greenVal == <<Q,"G","R","E","E","N",Q>>
tealVal == <<Q,"T","E","A","L",Q>>
blueVal == <<Q,"B","L","U","E",Q>>
grayVal == <<Q,"G","R","A","Y",Q>>

\* The package's var block as it stands after package initialisation.
PackageVars ==
  [ nodekind |-> nodekind, tskind |-> tskind,
    notetype |-> notetype, listtype |-> listtype, itemtype |-> itemtype,
    tszero |-> tszero,
    notDismissedVal |-> notDismissedVal, dismissedVal |-> dismissedVal,
    morningVal |-> morningVal, afternoonVal |-> afternoonVal,
    eveningVal |-> eveningVal, nightVal |-> nightVal,
    defaultVal |-> defaultVal, redVal |-> redVal, orangeVal |-> orangeVal,
    yellowVal |-> yellowVal, greenVal |-> greenVal, tealVal |-> tealVal,
    blueVal |-> blueVal, grayVal |-> grayVal ]

VarNames == DOMAIN PackageVars

(* ------------------------------------------------------------------ *)
(* Enumerations, src/wire/protocol.go:45-64                            *)
(* ------------------------------------------------------------------ *)

SpecificTime == 0
Morning == 1
Afternoon == 2
Evening == 3
Night == 4

DefaultColor == 0
Red == 1
Orange == 2
Yellow == 3
Green == 4
Teal == 5
Blue == 6
Gray == 7

(* ------------------------------------------------------------------ *)
(* Results of calls                                                    *)
(* ------------------------------------------------------------------ *)

\* The nil error.
Nil == [msg |-> "nil", args |-> <<>>]

\* fmt.Errorf(msg, args...): the message keeps the values it was given.
Errorf(msg, args) == [msg |-> msg, args |-> args]

\* What a MarshalJSON returns: the slice, the package variable whose backing
\* array the slice shares ("" for a nil or freshly allocated slice), the error.
Ret(out, alias, err) == [out |-> out, alias |-> alias, err |-> err]

\* What an UnmarshalJSON leaves: the receiver's value and the error.
Dec(val, err) == [val |-> val, err |-> err]

(* ------------------------------------------------------------------ *)
(* Dismissed, src/wire/protocol.go:157-180                             *)
(* ------------------------------------------------------------------ *)

DismissedMarshalJSON(tb, d) ==
  IF d THEN Ret(tb.dismissedVal, "dismissedVal", Nil)
  ELSE Ret(tb.notDismissedVal, "notDismissedVal", Nil)

DismissedUnmarshalJSON(tb, d, b) ==
  IF tb.dismissedVal = b THEN Dec(TRUE, Nil)
  ELSE IF tb.notDismissedVal = b THEN Dec(TRUE, Nil)
  ELSE Dec(d, Errorf("expected %q or %q, got %q",
                     <<tb.dismissedVal, tb.notDismissedVal, b>>))

(* ------------------------------------------------------------------ *)
(* Period, src/wire/protocol.go:182-219                                *)
(* ------------------------------------------------------------------ *)

\* PeriodMarshalJSON with the unset value coerced to a token instead of
\* refused.
PeriodMarshalJSON_coerce(tb, p) ==
  CASE p = Morning -> Ret(tb.morningVal, "morningVal", Nil)
    [] p = Afternoon -> Ret(tb.afternoonVal, "afternoonVal", Nil)
    [] p = Evening -> Ret(tb.eveningVal, "eveningVal", Nil)
    [] p = Night -> Ret(tb.nightVal, "nightVal", Nil)
    [] OTHER -> Ret(tb.morningVal, "morningVal", Nil)

PeriodMarshalJSON(tb, p) ==
  CASE p = Morning -> Ret(tb.morningVal, "morningVal", Nil)
    [] p = Afternoon -> Ret(tb.afternoonVal, "afternoonVal", Nil)
    [] p = Evening -> Ret(tb.eveningVal, "eveningVal", Nil)
    [] p = Night -> Ret(tb.nightVal, "nightVal", Nil)
    [] OTHER -> Ret(<<>>, "", Errorf("unsupported period value %d", <<p>>))

PeriodUnmarshalJSON(tb, p, b) ==
  CASE tb.morningVal = b -> Dec(Morning, Nil)
    [] tb.afternoonVal = b -> Dec(Afternoon, Nil)
    [] tb.eveningVal = b -> Dec(Evening, Nil)
    [] tb.nightVal = b -> Dec(Night, Nil)
    [] OTHER -> Dec(p, Errorf("unexpected Period value %q", <<b>>))

(* ------------------------------------------------------------------ *)
(* Color, src/wire/protocol.go:221-270                                 *)
(* ------------------------------------------------------------------ *)

ColorMarshalJSON(tb, c) ==
  CASE c = DefaultColor -> Ret(tb.defaultVal, "defaultVal", Nil)
    [] c = Red -> Ret(tb.redVal, "redVal", Nil)
    [] c = Orange -> Ret(tb.orangeVal, "orangeVal", Nil)
    [] c = Yellow -> Ret(tb.yellowVal, "yellowVal", Nil)
    [] c = Green -> Ret(tb.greenVal, "greenVal", Nil)
    [] c = Teal -> Ret(tb.tealVal, "tealVal", Nil)
    [] c = Blue -> Ret(tb.blueVal, "blueVal", Nil)
    [] c = Gray -> Ret(tb.grayVal, "grayVal", Nil)
    [] OTHER -> Ret(<<>>, "", Errorf("unsupported color value %d", <<c>>))

\* ColorUnmarshalJSON with the receiver reset before the token is looked up.
ColorUnmarshalJSON_reset(tb, c, b) ==
  CASE tb.defaultVal = b -> Dec(DefaultColor, Nil)
    [] tb.redVal = b -> Dec(Red, Nil)
    [] tb.orangeVal = b -> Dec(Orange, Nil)
    [] tb.yellowVal = b -> Dec(Yellow, Nil)
    [] tb.greenVal = b -> Dec(Green, Nil)
    [] tb.tealVal = b -> Dec(Teal, Nil)
    [] tb.blueVal = b -> Dec(Blue, Nil)
    [] tb.grayVal = b -> Dec(Gray, Nil)
    [] OTHER -> Dec(DefaultColor, Errorf("unexpected Color value %q", <<b>>))

ColorUnmarshalJSON(tb, c, b) ==
  CASE tb.defaultVal = b -> Dec(DefaultColor, Nil)
    [] tb.redVal = b -> Dec(Red, Nil)
    [] tb.orangeVal = b -> Dec(Orange, Nil)
    [] tb.yellowVal = b -> Dec(Yellow, Nil)
    [] tb.greenVal = b -> Dec(Green, Nil)
    [] tb.tealVal = b -> Dec(Teal, Nil)
    [] tb.blueVal = b -> Dec(Blue, Nil)
    [] tb.grayVal = b -> Dec(Gray, Nil)
    [] OTHER -> Dec(c, Errorf("unexpected Color value %q", <<b>>))

(* ------------------------------------------------------------------ *)
(* Literal tags, src/wire/protocol.go:298-376.  The types are empty    *)
(* structs: the receiver has the one value Unit.                       *)
(* ------------------------------------------------------------------ *)

Unit == "struct{}"

TSKindMarshalJSON(tb) == Ret(tb.tskind, "tskind", Nil)

\* TSKindUnmarshalJSON checking against the node kind (a copy of NodeKind's).
TSKindUnmarshalJSON_nodekind(tb, b) ==
  IF tb.nodekind # b THEN Dec(Unit, Errorf("expected %q got %q", <<tb.nodekind, b>>))
  ELSE Dec(Unit, Nil)

TSKindUnmarshalJSON(tb, b) ==
  IF tb.tskind # b THEN Dec(Unit, Errorf("expected %q got %q", <<tb.tskind, b>>))
  ELSE Dec(Unit, Nil)

NodeKindMarshalJSON(tb) == Ret(tb.nodekind, "nodekind", Nil)

NodeKindUnmarshalJSON(tb, b) ==
  IF tb.nodekind # b THEN Dec(Unit, Errorf("expected %q got %q", <<tb.nodekind, b>>))
  ELSE Dec(Unit, Nil)

NoteTypeMarshalJSON(tb) == Ret(tb.notetype, "notetype", Nil)

NoteTypeUnmarshalJSON(tb, b) ==
  IF tb.notetype # b THEN Dec(Unit, Errorf("expected %q got %q", <<tb.notetype, b>>))
  ELSE Dec(Unit, Nil)

ListTypeMarshalJSON(tb) == Ret(tb.listtype, "listtype", Nil)

ListTypeUnmarshalJSON(tb, b) ==
  IF tb.listtype # b THEN Dec(Unit, Errorf("expected %q got %q", <<tb.listtype, b>>))
  ELSE Dec(Unit, Nil)

ItemTypeMarshalJSON(tb) == Ret(tb.itemtype, "itemtype", Nil)

ItemTypeUnmarshalJSON(tb, b) ==
  IF tb.itemtype # b THEN Dec(Unit, Errorf("expected %q got %q", <<tb.itemtype, b>>))
  ELSE Dec(Unit, Nil)

(* ------------------------------------------------------------------ *)
(* Go's time package, as far as the codec uses it.  A time.Time is an  *)
(* instant (day: days since 0001-01-01 UTC, sod: second of that day,   *)
(* nsec) and a Location.  A Location has one transition: offset std    *)
(* before the UTC instant (tday, tsod), offset dst from it on; a fixed *)
(* zone has std = dst.                                                 *)
(* ------------------------------------------------------------------ *)

secondsPerDay == 24 * 60 * 60

FixedZone(name, off) == [name |-> name, std |-> off, dst |-> off, tday |-> 0, tsod |-> 0]

UTC == FixedZone("UTC", 0)

\* Timestamp{}: the zero time.Time, January 1, year 1, 00:00:00 UTC.
ZeroTime == [day |-> 0, sod |-> 0, nsec |-> 0, loc |-> UTC]

\* time.Time.IsZero: the instant alone decides, not the Location.
IsZero(t) == t.day = 0 /\ t.sod = 0 /\ t.nsec = 0

\* (day, seconds) with the seconds brought into 0..86399.
NormDay(day, secs) ==
  [day |-> day + (secs \div secondsPerDay), sod |-> secs % secondsPerDay]

\* Location.lookup: the offset in effect at a UTC instant.
Lookup(loc, day, sod) ==
  IF day < loc.tday \/ (day = loc.tday /\ sod < loc.tsod) THEN loc.std ELSE loc.dst

isLeap(year) == year % 4 = 0 /\ (year % 100 # 0 \/ year % 400 = 0)

daysBefore == <<0, 31, 59, 90, 120, 151, 181, 212, 243, 273, 304, 334, 365>>

daysIn(m, year) ==
  IF m = 2 /\ isLeap(year) THEN 29 ELSE daysBefore[m + 1] - daysBefore[m]

\* Days from 0001-01-01 to January 1 of year.
daysSinceEpoch(year) ==
  LET y == year - 1 IN 365 * y + (y \div 4) - (y \div 100) + (y \div 400)

\* time.absDate: year, month, day of a day number, by 400/100/4/1-year cycles
\* (in every cycle the last year is the leap year, so the quotient is capped).
civil(year, yd, month) == [year |-> year, month |-> month, day |-> yd - daysBefore[month] + 1]

\* yd: the day of the year with February 29 taken out.
monthOf(year, yd) ==
  civil(year, yd, CHOOSE m \in 1..12 : daysBefore[m] <= yd /\ yd < daysBefore[m + 1])

dateOfYday(year, yday) ==
  IF isLeap(year) /\ yday = 59 THEN [year |-> year, month |-> 2, day |-> 29]
  ELSE monthOf(year, IF isLeap(year) /\ yday > 59 THEN yday - 1 ELSE yday)

capped(n) == n - (n \div 4)

absYear(y, d, n1) == dateOfYday(y + n1 + 1, d - 365 * n1)

abs4(y, d) == absYear(y + 4 * (d \div 1461), d % 1461, capped((d % 1461) \div 365))

abs100(y, d, n100) == abs4(y + 100 * n100, d - 36524 * n100)

absDate(d) == abs100(400 * (d \div 146097), d % 146097, capped((d % 146097) \div 36524))

clock(dt, sod) ==
  [year |-> dt.year, month |-> dt.month, day |-> dt.day,
   hour |-> sod \div 3600, min |-> (sod % 3600) \div 60, sec |-> sod % 60]

wallAt(l) == clock(absDate(l.day), l.sod)

\* The wall clock of t in its own Location: what t.Date() and t.Clock() read.
Wall(t) == wallAt(NormDay(t.day, t.sod + Lookup(t.loc, t.day, t.sod)))

mkTime(u, nsec, loc) == [day |-> u.day, sod |-> u.sod, nsec |-> nsec, loc |-> loc]

\* The offset at the wall clock (d, secs): the one in effect at the instant the
\* first guess off1 gives, when that instant lies in off1's period, else the
\* one in effect at that instant.
zoneOffset(loc, off1, u1) ==
  IF off1 # 0 /\ Lookup(loc, u1.day, u1.sod) # off1
  THEN Lookup(loc, u1.day, u1.sod) ELSE off1

toUTC(d, secs, nsec, loc, off1) ==
  mkTime(NormDay(d, secs - zoneOffset(loc, off1, NormDay(d, secs - off1))), nsec, loc)

dateAbs(d, secs, nsec, loc) == toUTC(d, secs, nsec, loc, Lookup(loc, d, secs))

dateDay(y, m, day, h1, mi, s, nsec, loc) ==
  dateAbs(daysSinceEpoch(y) + daysBefore[m] + (IF isLeap(y) /\ m >= 3 THEN 1 ELSE 0)
            + day + (h1 \div 24) - 1,
          (h1 % 24) * 3600 + mi * 60 + s, nsec, loc)

dateMin(y, m, day, hour, mi1, s, nsec, loc) ==
  dateDay(y, m, day, hour + (mi1 \div 60), mi1 % 60, s, nsec, loc)

\* time.Date: out-of-range months, days, hours, minutes and seconds are
\* normalized; the wall clock is then taken to UTC with the offset the
\* Location has there (two lookups around a transition).
Date(year, month, day, hour, min, sec, nsec, loc) ==
  dateMin(year + ((month - 1) \div 12), ((month - 1) % 12) + 1, day, hour,
          min + (sec \div 60), sec % 60, nsec, loc)

\* t.In(loc): the same instant read in another Location.
In(t, loc) == [t EXCEPT !.loc = loc]

\* Time.Equal: the same instant, whatever the Locations.
SameInstant(t, u) == t.day = u.day /\ t.sod = u.sod /\ t.nsec = u.nsec

DigitChars == <<"0", "1", "2", "3", "4", "5", "6", "7", "8", "9">>

isDigit(ch) == \E n \in 1..10 : DigitChars[n] = ch

DigitVal(ch) == (CHOOSE n \in 1..10 : DigitChars[n] = ch) - 1

Pad2(n) == <<DigitChars[((n \div 10) % 10) + 1], DigitChars[(n % 10) + 1]>>

Pad3(n) == <<DigitChars[((n \div 100) % 10) + 1], DigitChars[((n \div 10) % 10) + 1],
             DigitChars[(n % 10) + 1]>>

Pad4(n) == <<DigitChars[((n \div 1000) % 10) + 1], DigitChars[((n \div 100) % 10) + 1],
             DigitChars[((n \div 10) % 10) + 1], DigitChars[(n % 10) + 1]>>

formatWall(w, msec) ==
  Pad4(w.year) \o <<"-">> \o Pad2(w.month) \o <<"-">> \o Pad2(w.day) \o <<"T">>
  \o Pad2(w.hour) \o <<":">> \o Pad2(w.min) \o <<":">> \o Pad2(w.sec)
  \o <<".">> \o Pad3(msec) \o <<"Z">>

\* tm.Format(tsLayout), tsLayout = 2006-01-02T15:04:05.000Z (line 43): the wall
\* clock of tm in tm's own Location, the fraction cut to milliseconds, then the
\* layout's literal Z.  The layout holds no quotes.
Format(tm) == formatWall(Wall(tm), tm.nsec \div 1000000)

\* The digits s[k..j] as a number, after acc; every one of them is a digit.
RECURSIVE Num(_, _, _, _)
Num(s, k, j, acc) == IF k > j THEN acc ELSE Num(s, k + 1, j, 10 * acc + DigitVal(s[k]))

AllDigits(s, i, j) == \A k \in i..j : isDigit(s[k])

\* hl: the number of digits of the hour.
wellFormed(s, hl) ==
  /\ Len(s) = 22 + hl
  /\ AllDigits(s, 1, 4) /\ s[5] = "-"
  /\ AllDigits(s, 6, 7) /\ s[8] = "-"
  /\ AllDigits(s, 9, 10) /\ s[11] = "T"
  /\ AllDigits(s, 12, 11 + hl) /\ s[12 + hl] = ":"
  /\ AllDigits(s, 13 + hl, 14 + hl) /\ s[15 + hl] = ":"
  /\ AllDigits(s, 16 + hl, 17 + hl) /\ s[18 + hl] = "."
  /\ AllDigits(s, 19 + hl, 21 + hl) /\ s[22 + hl] = "Z"

parseError(s) ==
  [t |-> ZeroTime, err |-> Errorf("parsing time %q as %q: cannot parse", <<s>>)]

inRange(s, year, month, day, hour, min, sec, msec) ==
  IF /\ month >= 1 /\ month <= 12
     /\ hour < 24 /\ min < 60 /\ sec < 60
     /\ day >= 1 /\ day <= daysIn(month, year)
  THEN [t |-> Date(year, month, day, hour, min, sec, msec * 1000000, UTC), err |-> Nil]
  ELSE parseError(s)

parseFields(s, hl) ==
  IF wellFormed(s, hl)
  THEN inRange(s, Num(s, 1, 4, 0), Num(s, 6, 7, 0), Num(s, 9, 10, 0),
               Num(s, 12, 11 + hl, 0), Num(s, 13 + hl, 14 + hl, 0),
               Num(s, 16 + hl, 17 + hl, 0), Num(s, 19 + hl, 21 + hl, 0))
  ELSE parseError(s)

\* time.Parse(tsLayout, s): four-digit year, two-digit month, day, minute and
\* second, an hour of one or two digits (layout element 15), a period and three
\* digits, the literal Z, and nothing after it; each field within its range.
\* The result is in UTC.
Parse(s) == parseFields(s, IF Len(s) >= 13 /\ isDigit(s[13]) THEN 2 ELSE 1)

(* ------------------------------------------------------------------ *)
(* Timestamp, src/wire/protocol.go:272-296                             *)
(* ------------------------------------------------------------------ *)

\* TimestampMarshalJSON comparing with Timestamp{} (==) instead of IsZero.
TimestampMarshalJSON_eq(tb, t) ==
  IF t = ZeroTime THEN Ret(tb.tszero, "tszero", Nil)
  ELSE Ret(Format(t), "", Nil)

TimestampMarshalJSON(tb, t) ==
  IF IsZero(t) THEN Ret(tb.tszero, "tszero", Nil)
  ELSE Ret(Format(t), "", Nil)

\* The receiver after tm, err := time.Parse(...): unchanged on an error.
parsedInto(t, p) == IF p.err # Nil THEN Dec(t, p.err) ELSE Dec(p.t, Nil)

TimestampUnmarshalJSON(tb, t, b) ==
  IF tb.tszero = b THEN Dec(ZeroTime, Nil)
  ELSE parsedInto(t, Parse(b))

(* ------------------------------------------------------------------ *)
(* Time, src/wire/protocol.go:127-155                                  *)
(* ------------------------------------------------------------------ *)

\* Time.Time(): local is time.Now().Location() at the call.
dateAt(t, hms, local) == Date(t.Year, t.Month, t.Day, hms[1], hms[2], hms[3], 0, local)

\* TimeTime with the stored minute and second kept for the named periods.
TimeTime_keep(t, local) ==
  dateAt(t,
         CASE t.Period = SpecificTime -> <<t.Hour, t.Minute, t.Second>>
           [] t.Period = Morning -> <<9, t.Minute, t.Second>>
           [] t.Period = Afternoon -> <<13, t.Minute, t.Second>>
           [] t.Period = Evening -> <<17, t.Minute, t.Second>>
           [] t.Period = Night -> <<20, t.Minute, t.Second>>
           [] OTHER -> <<0, 0, 0>>,
         local)

TimeTime(t, local) ==
  dateAt(t,
         CASE t.Period = SpecificTime -> <<t.Hour, t.Minute, t.Second>>
           [] t.Period = Morning -> <<9, 0, 0>>
           [] t.Period = Afternoon -> <<13, 0, 0>>
           [] t.Period = Evening -> <<17, 0, 0>>
           [] t.Period = Night -> <<20, 0, 0>>
           [] OTHER -> <<0, 0, 0>>,
         local)

(* ------------------------------------------------------------------ *)
(* The records, src/wire/protocol.go:66-137, and the one of the test,  *)
(* src/wire/protocol_test.go:10-12.  A struct value is a record with a *)
(* field per Go field, an embedded field under its type's name.        *)
(* ------------------------------------------------------------------ *)

\* One field of a struct: its Go name and type, its JSON key, whether it is
\* embedded, whether its tag says omitempty.
F(name, type, key) == [name |-> name, type |-> type, key |-> key, emb |-> FALSE, omit |-> FALSE]

Embed(type) == [name |-> type, type |-> type, key |-> type, emb |-> TRUE, omit |-> FALSE]

OmitEmpty(f) == [f EXCEPT !.omit = TRUE]

StructTypes ==
  {"Note", "List", "Item", "ParentNode", "Node", "Timestamps", "Reminder", "Time", "foo"}

Fields(T) ==
  CASE T = "Note" -> <<Embed("ParentNode"), F("Type", "NoteType", "type")>>
    [] T = "List" -> <<Embed("ParentNode"), F("Type", "ListType", "type")>>
    [] T = "Item" -> <<Embed("Node"), F("Type", "ItemType", "type"),
                       F("Checked", "bool", "checked"), F("Text", "string", "text")>>
    [] T = "ParentNode" -> <<Embed("Node"), F("Title", "string", "title"),
                             F("Archived", "bool", "isArchived"), Embed("Color")>>
    [] T = "Node" -> <<F("ID", "string", "id"), F("Kind", "NodeKind", "kind"),
                       F("ParentID", "string", "parentId"),
                       F("SortValue", "int", "sortValue"),
                       F("Timestamps", "Timestamps", "timestamps")>>
    [] T = "Timestamps" -> <<F("Kind", "TSKind", "kind"),
                             F("Created", "Timestamp", "created"),
                             F("Deleted", "Timestamp", "deleted"),
                             F("Trashed", "Timestamp", "trashed"),
                             F("Updated", "Timestamp", "updated"),
                             F("UserEdited", "Timestamp", "userEdited")>>
    [] T = "Reminder" -> <<F("Dismissed", "Dismissed", "state"),
                           F("Description", "string", "description"), Embed("Time")>>
    [] T = "Time" -> <<F("Year", "int", "year"), F("Month", "int", "month"),
                       F("Day", "int", "day"),
                       OmitEmpty(F("Period", "Period", "period")),
                       OmitEmpty(F("Hour", "int", "hour")),
                       OmitEmpty(F("Minute", "int", "minute")),
                       OmitEmpty(F("Second", "int", "second"))>>
    [] T = "foo" -> <<OmitEmpty(F("When", "Period", "When"))>>
    [] OTHER -> <<>>

\* The types that declare MarshalJSON (value receiver) and UnmarshalJSON
\* (pointer receiver).
Codecs ==
  {"Dismissed", "Period", "Color", "Timestamp",
   "TSKind", "NodeKind", "NoteType", "ListType", "ItemType"}

MarshalerCall(tb, U, v) ==
  CASE U = "Dismissed" -> DismissedMarshalJSON(tb, v)
    [] U = "Period" -> PeriodMarshalJSON(tb, v)
    [] U = "Color" -> ColorMarshalJSON(tb, v)
    [] U = "Timestamp" -> TimestampMarshalJSON(tb, v)
    [] U = "TSKind" -> TSKindMarshalJSON(tb)
    [] U = "NodeKind" -> NodeKindMarshalJSON(tb)
    [] U = "NoteType" -> NoteTypeMarshalJSON(tb)
    [] U = "ListType" -> ListTypeMarshalJSON(tb)
    [] U = "ItemType" -> ItemTypeMarshalJSON(tb)

UnmarshalerCall(tb, U, v, b) ==
  CASE U = "Dismissed" -> DismissedUnmarshalJSON(tb, v, b)
    [] U = "Period" -> PeriodUnmarshalJSON(tb, v, b)
    [] U = "Color" -> ColorUnmarshalJSON(tb, v, b)
    [] U = "Timestamp" -> TimestampUnmarshalJSON(tb, v, b)
    [] U = "TSKind" -> TSKindUnmarshalJSON(tb, b)
    [] U = "NodeKind" -> NodeKindUnmarshalJSON(tb, b)
    [] U = "NoteType" -> NoteTypeUnmarshalJSON(tb, b)
    [] U = "ListType" -> ListTypeUnmarshalJSON(tb, b)
    [] U = "ItemType" -> ItemTypeUnmarshalJSON(tb, b)

(* ------------------------------------------------------------------ *)
(* Go's method sets and encoding/json, as the records use them.        *)
(* ------------------------------------------------------------------ *)

\* The chains of embedded fields that start at T: the path of field names and
\* the type at its end.
RECURSIVE Embeds(_)
Embeds(T) ==
  LET fs == Fields(T)
  IN {[path |-> <<>>, type |-> T]} \cup
     UNION { {[path |-> <<fs[i].name>> \o e.path, type |-> e.type] : e \in Embeds(fs[i].type)}
             : i \in {k \in 1..Len(fs) : fs[k].emb} }

\* Go's promotion: T has the codec methods of the embedded type that declares
\* them at the shallowest depth, if it is the only one at that depth.  The
\* result is a set: empty when T has no such method, else the one owner.
MethodOwner(T) ==
  LET cands == {e \in Embeds(T) : e.type \in Codecs}
      shallow == {e \in cands : \A o \in cands : Len(e.path) <= Len(o.path)}
  IN IF Cardinality(shallow) = 1 THEN shallow ELSE {}

RECURSIVE ValueAt(_, _)
ValueAt(v, path) == IF path = <<>> THEN v ELSE ValueAt(v[Head(path)], Tail(path))

RECURSIVE WithValueAt(_, _, _)
WithValueAt(v, path, x) ==
  IF path = <<>> THEN x
  ELSE [v EXCEPT ![Head(path)] = WithValueAt(v[Head(path)], Tail(path), x)]

\* The fields encoding/json writes for a struct: those of embedded structs in
\* place of the embedded field, an embedded non-struct under its type's name.
RECURSIVE FlatFields(_)
RECURSIVE flatFrom(_, _)
under(name, sub) == [k \in 1..Len(sub) |-> [sub[k] EXCEPT !.path = <<name>> \o sub[k].path]]

flatFrom(fs, i) ==
  IF i > Len(fs) THEN <<>>
  ELSE (IF fs[i].emb /\ fs[i].type \in StructTypes
        THEN under(fs[i].name, FlatFields(fs[i].type))
        ELSE <<[path |-> <<fs[i].name>>, type |-> fs[i].type,
                key |-> fs[i].key, omit |-> fs[i].omit]>>) \o flatFrom(fs, i + 1)

FlatFields(T) == flatFrom(Fields(T), 1)

\* The zero value of a type.
RECURSIVE Zero(_)
Zero(T) ==
  CASE T \in StructTypes ->
         LET fs == Fields(T)
         IN [n \in {fs[i].name : i \in 1..Len(fs)} |->
               Zero((CHOOSE f \in {fs[i] : i \in 1..Len(fs)} : f.name = n).type)]
    [] T = "string" -> ""
    [] T = "int" -> 0
    [] T = "bool" -> FALSE
    [] T = "Dismissed" -> FALSE
    [] T \in {"Period", "Color"} -> 0
    [] T = "Timestamp" -> ZeroTime
    [] OTHER -> Unit

\* encoding/json's isEmptyValue, for the types tagged omitempty here (ints).
isEmptyValue(v) == v = 0

\* A marshaler's output must be JSON text: a string without quotes or
\* backslashes inside, a literal, or digits.
validJSON(b) ==
  \/ /\ Len(b) >= 2 /\ b[1] = Q /\ b[Len(b)] = Q
     /\ \A k \in 2..(Len(b) - 1) : b[k] # Q /\ b[k] # "\\"
  \/ b \in {<<"n", "u", "l", "l">>, <<"t", "r", "u", "e">>, <<"f", "a", "l", "s", "e">>}
  \/ Len(b) >= 1 /\ \A k \in 1..Len(b) : isDigit(b[k])

\* JSON values: the bytes of a marshaler, an object (members in order), or a
\* string, number or boolean literal.
Raw(b) == [k |-> "raw", b |-> b]

Obj(members) == [k |-> "obj", members |-> members]

Lit(v) == [k |-> "lit", v |-> v]

Enc(j, err) == [j |-> j, err |-> err]

RECURSIVE Marshal(_, _, _)
RECURSIVE marshalFields(_, _, _, _, _)
\* What json.Marshal makes of a MarshalJSON's return: its error wrapped, an
\* error for bytes that are not JSON, else the bytes.
marshalerResult(T, r) ==
  IF r.err # Nil
  THEN Enc(Lit(Unit), Errorf("json: error calling MarshalJSON for type %s: %w", <<T, r.err>>))
  ELSE IF ~validJSON(r.out)
  THEN Enc(Lit(Unit), Errorf("json: error calling MarshalJSON for type %s: invalid character", <<T, r.out>>))
  ELSE Enc(Raw(r.out), Nil)

marshalOwner(tb, T, v, o) == marshalerResult(T, MarshalerCall(tb, o.type, ValueAt(v, o.path)))

marshalField(tb, v, ff, i, acc, e) ==
  IF e.err # Nil THEN e
  ELSE marshalFields(tb, v, ff, i + 1, Append(acc, [key |-> ff[i].key, val |-> e.j]))

marshalFields(tb, v, ff, i, acc) ==
  IF i > Len(ff) THEN Enc(Obj(acc), Nil)
  ELSE IF ff[i].omit /\ isEmptyValue(ValueAt(v, ff[i].path))
  THEN marshalFields(tb, v, ff, i + 1, acc)
  ELSE marshalField(tb, v, ff, i, acc, Marshal(tb, ff[i].type, ValueAt(v, ff[i].path)))

\* json.Marshal(v), v of type T: a type with MarshalJSON in its method set is
\* written by that method alone; a struct field by field, omitempty fields
\* skipped while empty; the first error ends the encoding.
Marshal(tb, T, v) ==
  IF MethodOwner(T) # {} THEN marshalOwner(tb, T, v, CHOOSE e \in MethodOwner(T) : TRUE)
  ELSE IF T \in StructTypes THEN marshalFields(tb, v, FlatFields(T), 1, <<>>)
  ELSE Enc(Lit(v), Nil)

\* The text of a JSON value as the bytes a decoder is handed: a marshaler's
\* bytes as they are; of an object the braces, and a key, a colon, a literal
\* and a comma as one element each.
RECURSIVE Text(_)
RECURSIVE textMembers(_, _)
textMembers(ms, i) ==
  IF i > Len(ms) THEN <<>>
  ELSE (IF i > 1 THEN <<",">> ELSE <<>>)
       \o <<ms[i].key, ":">> \o Text(ms[i].val) \o textMembers(ms, i + 1)

Text(j) ==
  CASE j.k = "raw" -> j.b
    [] j.k = "lit" -> <<ToString(j.v)>>
    [] j.k = "obj" -> <<"{">> \o textMembers(j.members, 1) \o <<"}">>

RECURSIVE Unmarshal(_, _, _, _)
RECURSIVE unmarshalMembers(_, _, _, _, _)
typeError(T, v) == Dec(v, Errorf("json: cannot unmarshal into Go value of type %s", <<T>>))

stored(v, path, d) == Dec(WithValueAt(v, path, d.val), d.err)

unmarshalOwner(tb, v, o, b) == stored(v, o.path, UnmarshalerCall(tb, o.type, ValueAt(v, o.path), b))

unmarshalNext(tb, ff, ms, i, r) ==
  IF r.err # Nil THEN r ELSE unmarshalMembers(tb, ff, ms, i + 1, r.val)

unmarshalField(tb, ff, ms, i, acc, f) ==
  unmarshalNext(tb, ff, ms, i,
                stored(acc, f.path, Unmarshal(tb, f.type, ValueAt(acc, f.path), ms[i].val)))

unmarshalMembers(tb, ff, ms, i, acc) ==
  IF i > Len(ms) THEN Dec(acc, Nil)
  ELSE IF \A n \in 1..Len(ff) : ff[n].key # ms[i].key
  THEN unmarshalMembers(tb, ff, ms, i + 1, acc)
  ELSE unmarshalField(tb, ff, ms, i, acc, ff[CHOOSE n \in 1..Len(ff) : ff[n].key = ms[i].key])

\* json.Unmarshal(j, &v), v of type T: a type with UnmarshalJSON in its
\* pointer method set is read by that method alone, from the whole text; a
\* struct member by member, each into the field with its key; the first error
\* ends the decoding and leaves what was already stored.
Unmarshal(tb, T, v, j) ==
  IF MethodOwner(T) # {} THEN unmarshalOwner(tb, v, CHOOSE e \in MethodOwner(T) : TRUE, Text(j))
  ELSE IF T \in StructTypes
  THEN IF j.k = "obj" THEN unmarshalMembers(tb, FlatFields(T), j.members, 1, v)
       ELSE typeError(T, v)
  ELSE IF j.k = "lit" THEN Dec(j.v, Nil)
  ELSE typeError(T, v)

(* ------------------------------------------------------------------ *)
(* The values callers pass in                                          *)
(* ------------------------------------------------------------------ *)

Zones == {UTC, FixedZone("+02:00", 7200), FixedZone("-05:00", -18000)}

\* 2024-03-05T17:04:05.123Z, the same with sub-millisecond digits,
\* 2024-02-29T23:30:00Z (another day east of UTC), the Unix epoch.
Instants ==
  { Date(2024, 3, 5, 17, 4, 5, 123000000, UTC),
    Date(2024, 3, 5, 17, 4, 5, 123456789, UTC),
    Date(2024, 2, 29, 23, 30, 0, 0, UTC),
    Date(1970, 1, 1, 0, 0, 0, 0, UTC),
    ZeroTime }

\* Every instant, held in every zone.
TimestampValues == {In(t, z) : t \in Instants, z \in Zones}

Dismisseds == BOOLEAN

\* Period and Color are ints: one value past the named ones is included.
Periods == SpecificTime..(Night + 1)

Colors == DefaultColor..(Gray + 1)

Quote(b) == <<Q>> \o b \o <<Q>>

\* Byte sequences that are no wire value of the package.
Junk ==
  { <<>>,
    <<Q, Q>>,
    <<Q, "P", "U", "R", "P", "L", "E", Q>>,
    <<Q, "M", "I", "D", "N", "I", "G", "H", "T", Q>>,
    <<Q, "r", "e", "d", Q>>,
    <<Q, "N", "i", "g", "h", "t", Q>>,
    <<"R", "E", "D">>,
    <<"n", "u", "l", "l">> }

\* 2024-03-05T17:04:05.12Z, 2024-03-05T7:04:05.123Z, 2024-13-05T17:04:05.123Z,
\* 2023-02-29T17:04:05.123Z, 2024-03-05T17:04:05.123 and 2024-03-05 17:04:05.123Z
BadStamps ==
  { <<"2","0","2","4","-","0","3","-","0","5","T","1","7",":","0","4",":","0","5",".","1","2","Z">>,
    <<"2","0","2","4","-","0","3","-","0","5","T","7",":","0","4",":","0","5",".","1","2","3","Z">>,
    <<"2","0","2","4","-","1","3","-","0","5","T","1","7",":","0","4",":","0","5",".","1","2","3","Z">>,
    <<"2","0","2","3","-","0","2","-","2","9","T","1","7",":","0","4",":","0","5",".","1","2","3","Z">>,
    <<"2","0","2","4","-","0","3","-","0","5","T","1","7",":","0","4",":","0","5",".","1","2","3">>,
    <<"2","0","2","4","-","0","3","-","0","5"," ","1","7",":","0","4",":","0","5",".","1","2","3","Z">> }

\* What the encoder writes for some of TimestampValues:
\* 2024-03-05T17:04:05.123Z, 2024-03-05T19:04:05.123Z, 2024-03-01T01:30:00.000Z,
\* 1970-01-01T00:00:00.000Z
GoodStamps ==
  { <<"2","0","2","4","-","0","3","-","0","5","T","1","7",":","0","4",":","0","5",".","1","2","3","Z">>,
    <<"2","0","2","4","-","0","3","-","0","5","T","1","9",":","0","4",":","0","5",".","1","2","3","Z">>,
    <<"2","0","2","4","-","0","3","-","0","1","T","0","1",":","3","0",":","0","0",".","0","0","0","Z">>,
    <<"1","9","7","0","-","0","1","-","0","1","T","0","0",":","0","0",":","0","0",".","0","0","0","Z">> }

\* Timestamps as text, bare and as JSON strings.
Stamps ==
  GoodStamps \cup BadStamps \cup {Quote(b) : b \in GoodStamps \cup BadStamps}

WireInputs == {PackageVars[n] : n \in VarNames} \cup Junk \cup Stamps

\* The process's local time zone: UTC, or US Eastern around the start of
\* daylight saving time on 2024-03-10, 07:00 UTC (02:00 EST becomes 03:00 EDT).
Eastern ==
  [name |-> "America/New_York", std |-> -18000, dst |-> -14400,
   tday |-> daysSinceEpoch(2024) + daysBefore[3] + 1 + 9, tsod |-> 7 * 3600]

Locations == {UTC, Eastern}

Times ==
  [ Year : {2023, 2024}, Month : {2, 3}, Day : {10, 29},
    Period : SpecificTime..Night,
    Hour : {2, 6, 25}, Minute : {0, 30}, Second : {0, 61} ]

\* Reminder times for the records: 2024-03-05, each period, with and without
\* an explicit hour.
RecordTimes ==
  [ Year : {2024}, Month : {3}, Day : {5}, Period : SpecificTime..Night,
    Hour : {0, 6}, Minute : {0}, Second : {0} ]

NodeValue(updated) ==
  [ ID |-> "n1", Kind |-> Unit, ParentID |-> "root", SortValue |-> 7,
    Timestamps |-> [ Kind |-> Unit, Created |-> ZeroTime, Deleted |-> ZeroTime,
                     Trashed |-> ZeroTime, Updated |-> updated,
                     UserEdited |-> ZeroTime ] ]

Updateds == {ZeroTime, Date(2024, 3, 5, 17, 4, 5, 123000000, UTC)}

ParentNodes ==
  { [Node |-> NodeValue(u), Title |-> t, Archived |-> FALSE, Color |-> c] :
      u \in Updateds, t \in {"", "Groceries"}, c \in DefaultColor..Gray }

\* The values handed to json.Marshal, each with its Go type.
Entities ==
  {[T |-> "List", v |-> [ParentNode |-> p, Type |-> Unit]] : p \in ParentNodes}
  \cup {[T |-> "Note", v |-> [ParentNode |-> p, Type |-> Unit]] : p \in ParentNodes}
  \cup {[T |-> "Item", v |-> [Node |-> NodeValue(u), Type |-> Unit, Checked |-> k, Text |-> "milk"]] :
          u \in Updateds, k \in BOOLEAN}
  \cup {[T |-> "Reminder", v |-> [Dismissed |-> d, Description |-> "call", Time |-> t]] :
          d \in Dismisseds, t \in RecordTimes}
  \cup {[T |-> "Time", v |-> t] : t \in RecordTimes}
  \cup {[T |-> "foo", v |-> [When |-> p]] : p \in SpecificTime..Night}

(* ------------------------------------------------------------------ *)
(* State                                                               *)
(* ------------------------------------------------------------------ *)

\* The record of a call: op names the function, recv is the receiver before the
\* call and post after it, arg the argument, out/alias/err what it returned.
Call(c, op, recv, arg, r, post) ==
  [caller |-> c, op |-> op, recv |-> recv, arg |-> arg,
   out |-> r.out, alias |-> r.alias, err |-> r.err, post |-> post]

NoRet == Ret(<<>>, "", Nil)

\* No call has returned something a caller still looks at.
NoCall == Call(0, "none", Unit, <<>>, NoRet, Unit)

Init ==
  /\ tab = PackageVars
  /\ res = NoCall
  /\ writes = 0

\* A call returns: res records it.
Returned(c, op, recv, arg, r, post) ==
  /\ res' = Call(c, op, recv, arg, r, post)
  /\ UNCHANGED <<tab, writes>>

\* An encoder is called: it reads the package variables and returns a slice.
Encoded(c, op, recv, r) == Returned(c, op, recv, <<>>, r, recv)

\* A decoder is called on b with a receiver holding recv.
Decoded(c, op, recv, b, d) == Returned(c, op, recv, b, Ret(<<>>, "", d.err), d.val)

DismissedMarshal(c) ==
  /\ res = NoCall
  /\ \E d \in Dismisseds : Encoded(c, "Dismissed.MarshalJSON", d, DismissedMarshalJSON(tab, d))

DismissedUnmarshal(c) ==
  /\ res = NoCall
  /\ \E d \in Dismisseds, b \in WireInputs :
       Decoded(c, "Dismissed.UnmarshalJSON", d, b, DismissedUnmarshalJSON(tab, d, b))

PeriodMarshal(c) ==
  /\ res = NoCall
  /\ \E p \in Periods : Encoded(c, "Period.MarshalJSON", p, PeriodMarshalJSON(tab, p))

PeriodUnmarshal(c) ==
  /\ res = NoCall
  /\ \E p \in Periods, b \in WireInputs :
       Decoded(c, "Period.UnmarshalJSON", p, b, PeriodUnmarshalJSON(tab, p, b))

ColorMarshal(c) ==
  /\ res = NoCall
  /\ \E v \in Colors : Encoded(c, "Color.MarshalJSON", v, ColorMarshalJSON(tab, v))

ColorUnmarshal(c) ==
  /\ res = NoCall
  /\ \E v \in Colors, b \in WireInputs :
       Decoded(c, "Color.UnmarshalJSON", v, b, ColorUnmarshalJSON(tab, v, b))

TimestampMarshal(c) ==
  /\ res = NoCall
  /\ \E t \in TimestampValues :
       Encoded(c, "Timestamp.MarshalJSON", t, TimestampMarshalJSON(tab, t))

TimestampUnmarshal(c) ==
  /\ res = NoCall
  /\ \E t \in Instants, b \in WireInputs :
       Decoded(c, "Timestamp.UnmarshalJSON", t, b, TimestampUnmarshalJSON(tab, t, b))

TSKindMarshal(c) ==
  /\ res = NoCall
  /\ Encoded(c, "TSKind.MarshalJSON", Unit, TSKindMarshalJSON(tab))

TSKindUnmarshal(c) ==
  /\ res = NoCall
  /\ \E b \in WireInputs : Decoded(c, "TSKind.UnmarshalJSON", Unit, b, TSKindUnmarshalJSON(tab, b))

NodeKindMarshal(c) ==
  /\ res = NoCall
  /\ Encoded(c, "NodeKind.MarshalJSON", Unit, NodeKindMarshalJSON(tab))

NodeKindUnmarshal(c) ==
  /\ res = NoCall
  /\ \E b \in WireInputs : Decoded(c, "NodeKind.UnmarshalJSON", Unit, b, NodeKindUnmarshalJSON(tab, b))

NoteTypeMarshal(c) ==
  /\ res = NoCall
  /\ Encoded(c, "NoteType.MarshalJSON", Unit, NoteTypeMarshalJSON(tab))

NoteTypeUnmarshal(c) ==
  /\ res = NoCall
  /\ \E b \in WireInputs : Decoded(c, "NoteType.UnmarshalJSON", Unit, b, NoteTypeUnmarshalJSON(tab, b))

ListTypeMarshal(c) ==
  /\ res = NoCall
  /\ Encoded(c, "ListType.MarshalJSON", Unit, ListTypeMarshalJSON(tab))

ListTypeUnmarshal(c) ==
  /\ res = NoCall
  /\ \E b \in WireInputs : Decoded(c, "ListType.UnmarshalJSON", Unit, b, ListTypeUnmarshalJSON(tab, b))

ItemTypeMarshal(c) ==
  /\ res = NoCall
  /\ Encoded(c, "ItemType.MarshalJSON", Unit, ItemTypeMarshalJSON(tab))

ItemTypeUnmarshal(c) ==
  /\ res = NoCall
  /\ \E b \in WireInputs : Decoded(c, "ItemType.UnmarshalJSON", Unit, b, ItemTypeUnmarshalJSON(tab, b))

\* t.Time(): arg is the local Location, out the time.Time returned.
DeriveTime(c) ==
  /\ res = NoCall
  /\ \E t \in Times, l \in Locations :
       Returned(c, "Time.Time", t, l, Ret(TimeTime(t, l), "", Nil), t)

\* json.Marshal(e.v): out is the JSON value written, in a buffer of its own.
marshalled(c, e, m) == Returned(c, "json.Marshal", e, <<>>, Ret(m.j, "", m.err), e)

JsonMarshal(c) ==
  /\ res = NoCall
  /\ \E e \in Entities : marshalled(c, e, Marshal(tab, e.T, e.v))

\* json.Unmarshal of the text json.Marshal wrote for e, into a new value of
\* e's type: arg is that JSON value, post the value decoded.
unmarshalled(c, T, z, j, d) ==
  Returned(c, "json.Unmarshal", [T |-> T, v |-> z], j, Ret(<<>>, "", d.err), [T |-> T, v |-> d.val])

unmarshalText(c, T, m) ==
  /\ m.err = Nil
  /\ unmarshalled(c, T, Zero(T), m.j, Unmarshal(tab, T, Zero(T), m.j))

JsonUnmarshal(c) ==
  /\ res = NoCall
  /\ \E e \in Entities : unmarshalText(c, e.T, Marshal(tab, e.T, e.v))

\* The caller is done with the result of its call.
Return(c) ==
  /\ res.caller = c
  /\ res' = NoCall
  /\ UNCHANGED <<tab, writes>>

\* The caller that got the last slice writes a byte of it.  A slice that shares
\* its backing array with a package variable changes that variable.
WriteBuf(c) ==
  /\ res.caller = c
  /\ res.alias # ""
  /\ writes < MaxWrites
  /\ \E i \in 1..MaxWriteIdx, ch \in {"x"} :
       /\ i <= Len(tab[res.alias])
       /\ tab' = [tab EXCEPT ![res.alias][i] = ch]
  /\ writes' = writes + 1
  /\ UNCHANGED res

Codec(c) ==
  \/ DismissedMarshal(c) \/ DismissedUnmarshal(c)
  \/ PeriodMarshal(c) \/ PeriodUnmarshal(c)
  \/ ColorMarshal(c) \/ ColorUnmarshal(c)
  \/ TimestampMarshal(c) \/ TimestampUnmarshal(c)
  \/ TSKindMarshal(c) \/ TSKindUnmarshal(c)
  \/ NodeKindMarshal(c) \/ NodeKindUnmarshal(c)
  \/ NoteTypeMarshal(c) \/ NoteTypeUnmarshal(c)
  \/ ListTypeMarshal(c) \/ ListTypeUnmarshal(c)
  \/ ItemTypeMarshal(c) \/ ItemTypeUnmarshal(c)
  \/ DeriveTime(c)
  \/ JsonMarshal(c) \/ JsonUnmarshal(c)

\* The codec's functions have no suspension point: a call runs from entry to
\* return in one step (each is taken while res = NoCall: its caller looks at
\* the result before the next call is made).
Step(c) == Codec(c) \/ Return(c)

\* Callers that leave the returned slices alone, as encoding/json does.
Next == \E c \in Callers : Step(c)

Spec == Init /\ [][Next]_vars

\* Callers that also write into the slices they were handed.
NextShared == \E c \in Callers : Step(c) \/ WriteBuf(c)

SpecShared == Init /\ [][NextShared]_vars

(* ------------------------------------------------------------------ *)
(* Properties                                                          *)
(* ------------------------------------------------------------------ *)

Op(name) == res.op = name

Failed == res.err # Nil

\* The members of the object json.Marshal wrote, by key.
Keys(j) == {j.members[i].key : i \in 1..Len(j.members)}

Member(j, key) == (CHOOSE i \in 1..Len(j.members) : j.members[i].key = key)

ValueOf(j, key) == j.members[Member(j, key)].val

\* C1: Dismissed decode tells its two tokens apart: "INITIAL" gives false and
\* "DISMISSED" gives true whatever the receiver held, any other input fails,
\* and decoding what encode wrote gives the value back.
C1_DismissedDecodeDistinguishes ==
  /\ Op("Dismissed.UnmarshalJSON") =>
       /\ res.arg = notDismissedVal => ~Failed /\ res.post = FALSE
       /\ res.arg = dismissedVal => ~Failed /\ res.post = TRUE
       /\ res.arg \notin {notDismissedVal, dismissedVal} => Failed
  /\ Op("Dismissed.MarshalJSON") =>
       \A d \in Dismisseds :
         DismissedUnmarshalJSON(tab, d, res.out) = Dec(res.recv, Nil)

\* C2: json.Marshal of a List or a Note writes an object with every field of
\* the record (id, kind, parentId, sortValue, timestamps, title, isArchived,
\* type and the color token), the Color encoder writing the color alone; and
\* json.Unmarshal of that output gives the value back.
C2_RecordEncodesEveryField ==
  (Op("json.Marshal") /\ res.recv.T \in {"List", "Note"}) =>
    /\ ~Failed
    /\ res.out.k = "obj"
    /\ {"id", "kind", "parentId", "sortValue", "timestamps", "title", "isArchived", "type"}
         \subseteq Keys(res.out)
    /\ ValueOf(res.out, "kind") = Raw(nodekind)
    /\ ValueOf(res.out, "type") = Raw(IF res.recv.T = "List" THEN listtype ELSE notetype)
    /\ ValueOf(res.out, "title") = Lit(res.recv.v.ParentNode.Title)
    /\ \E i \in 1..Len(res.out.members) :
         res.out.members[i].val = Raw(ColorMarshalJSON(PackageVars, res.recv.v.ParentNode.Color).out)
    /\ Unmarshal(tab, res.recv.T, Zero(res.recv.T), res.out) = Dec(res.recv.v, Nil)

\* b is a JSON string in the pattern YYYY-MM-DDTHH:mm:ss.sssZ.
InPattern(b) ==
  /\ Len(b) = 26 /\ b[1] = Q /\ b[26] = Q
  /\ Parse(SubSeq(b, 2, 25)).err = Nil

\* C3: a non-zero instant of whole milliseconds encodes to a JSON string in
\* the pattern YYYY-MM-DDTHH:mm:ss.sssZ, decoding those bytes gives the same
\* instant, and decode fails only on input that is neither the sentinel nor a
\* string in the pattern.
C3_TimestampRoundTrip ==
  /\ (Op("Timestamp.MarshalJSON") /\ ~IsZero(res.recv) /\ res.recv.nsec % 1000000 = 0) =>
       /\ ~Failed
       /\ InPattern(res.out)
       /\ TimestampUnmarshalJSON(tab, ZeroTime, res.out).err = Nil
       /\ SameInstant(TimestampUnmarshalJSON(tab, ZeroTime, res.out).val, res.recv)
  /\ (Op("Timestamp.UnmarshalJSON") /\ Failed) =>
       ~(res.arg = tszero \/ InPattern(res.arg))

\* The UTC wall clock of t in the layout, bare.
UTCText(t) == formatWall(Wall(In(t, UTC)), t.nsec \div 1000000)

\* C4: a non-zero instant encodes to its UTC wall clock followed by Z, the
\* same bytes whatever zone the value is held in.
C4_TimestampEncodesUTC ==
  (Op("Timestamp.MarshalJSON") /\ ~IsZero(res.recv)) =>
    /\ res.out \in {UTCText(res.recv), Quote(UTCText(res.recv))}
    /\ \A z \in Zones : TimestampMarshalJSON(tab, In(res.recv, z)).out = res.out

\* C5: the zero instant, in whatever zone it is held, encodes to exactly the
\* sentinel "1970-01-01T00:00:00.000Z"; decoding exactly the sentinel gives the
\* zero instant, whatever the receiver held.
C5_Sentinel ==
  /\ (Op("Timestamp.MarshalJSON") /\ IsZero(res.recv)) =>
       ~Failed /\ res.out = tszero
  /\ (Op("Timestamp.UnmarshalJSON") /\ res.arg = tszero) =>
       ~Failed /\ res.post = ZeroTime

C5_Witness ==
  Op("Timestamp.MarshalJSON") /\ IsZero(res.recv) /\ res.recv.loc # UTC /\ res.out = tszero

\* The constant of each literal tag, by the functions that write and read it.
TagEncoders ==
  [ x \in {"TSKind.MarshalJSON", "NodeKind.MarshalJSON", "NoteType.MarshalJSON",
           "ListType.MarshalJSON", "ItemType.MarshalJSON"} |->
      CASE x = "TSKind.MarshalJSON" -> tskind
        [] x = "NodeKind.MarshalJSON" -> nodekind
        [] x = "NoteType.MarshalJSON" -> notetype
        [] x = "ListType.MarshalJSON" -> listtype
        [] x = "ItemType.MarshalJSON" -> itemtype ]

TagDecoders ==
  [ x \in {"TSKind.UnmarshalJSON", "NodeKind.UnmarshalJSON", "NoteType.UnmarshalJSON",
           "ListType.UnmarshalJSON", "ItemType.UnmarshalJSON"} |->
      CASE x = "TSKind.UnmarshalJSON" -> tskind
        [] x = "NodeKind.UnmarshalJSON" -> nodekind
        [] x = "NoteType.UnmarshalJSON" -> notetype
        [] x = "ListType.UnmarshalJSON" -> listtype
        [] x = "ItemType.UnmarshalJSON" -> itemtype ]

\* C6: each literal tag encodes to its own quoted constant; its decode
\* succeeds exactly on those bytes and otherwise fails with an error that
\* holds the expected and the observed bytes.
C6_LiteralTags ==
  /\ res.op \in DOMAIN TagEncoders =>
       ~Failed /\ res.out = TagEncoders[res.op] /\ validJSON(res.out) /\ res.out[1] = Q
  /\ res.op \in DOMAIN TagDecoders =>
       /\ ~Failed <=> res.arg = TagDecoders[res.op]
       /\ Failed => res.err.args = <<TagDecoders[res.op], res.arg>>
       /\ res.post = res.recv

C6_Witness ==
  /\ Op("TSKind.UnmarshalJSON") /\ res.arg = nodekind
  /\ Failed /\ res.err.args = <<tskind, nodekind>>

PeriodKeys == {"period", "When"}

\* The Period field of a record handed to json.Marshal.
PeriodField(e) ==
  CASE e.T = "foo" -> e.v.When
    [] e.T = "Time" -> e.v.Period
    [] e.T = "Reminder" -> e.v.Time.Period

\* C7: Period's encoder refuses the unset Period, and a record whose
\* omit-when-empty Period field is unset encodes without error and without a
\* period key: a record of that field alone encodes to {}.
C7_UnsetPeriodOmitted ==
  /\ (Op("Period.MarshalJSON") /\ res.recv = SpecificTime) => Failed
  /\ (Op("json.Marshal") /\ res.recv.T \in {"foo", "Time", "Reminder"}
        /\ PeriodField(res.recv) = SpecificTime) =>
       /\ ~Failed
       /\ res.out.k = "obj"
       /\ Keys(res.out) \cap PeriodKeys = {}
       /\ res.recv.T = "foo" => Text(res.out) = <<"{", "}">>

C7_Witness ==
  /\ Op("json.Marshal") /\ res.recv.T = "foo" /\ res.recv.v.When = SpecificTime
  /\ ~Failed /\ Text(res.out) = <<"{", "}">>

ColorTokens ==
  <<defaultVal, redVal, orangeVal, yellowVal, greenVal, tealVal, blueVal, grayVal>>

PeriodTokens == <<morningVal, afternoonVal, eveningVal, nightVal>>

Range(f) == {f[i] : i \in DOMAIN f}

\* C8: for Color and Period, decode accepts exactly the tokens encode writes
\* and is its inverse: each of the eight colors and four named periods encodes
\* to a token of its own, decoding the token gives the value back, and
\* decoding anything else fails and leaves the receiver as it was.
C8_EnumTokens ==
  /\ (Op("Color.MarshalJSON") /\ res.recv \in DefaultColor..Gray) =>
       /\ ~Failed /\ res.out = ColorTokens[res.recv + 1]
       /\ \A v \in DefaultColor..Gray : v # res.recv => ColorTokens[v + 1] # res.out
       /\ \A c \in Colors : ColorUnmarshalJSON(tab, c, res.out) = Dec(res.recv, Nil)
  /\ (Op("Period.MarshalJSON") /\ res.recv \in Morning..Night) =>
       /\ ~Failed /\ res.out = PeriodTokens[res.recv]
       /\ \A v \in Morning..Night : v # res.recv => PeriodTokens[v] # res.out
       /\ \A q \in Periods : PeriodUnmarshalJSON(tab, q, res.out) = Dec(res.recv, Nil)
  /\ Op("Color.UnmarshalJSON") =>
       /\ ~Failed <=> res.arg \in Range(ColorTokens)
       /\ ~Failed => ColorTokens[res.post + 1] = res.arg
       /\ Failed => res.post = res.recv
  /\ Op("Period.UnmarshalJSON") =>
       /\ ~Failed <=> res.arg \in Range(PeriodTokens)
       /\ ~Failed => PeriodTokens[res.post] = res.arg
       /\ Failed => res.post = res.recv

C8_Witness ==
  /\ Op("Color.UnmarshalJSON")
  /\ res.arg = <<Q, "P", "U", "R", "P", "L", "E", Q>>
  /\ res.recv = Green /\ Failed /\ res.post = Green

\* The time of day Time.Time() is to give for t.
TimeOfDay(t) ==
  CASE t.Period = Morning -> <<9, 0, 0>>
    [] t.Period = Afternoon -> <<13, 0, 0>>
    [] t.Period = Evening -> <<17, 0, 0>>
    [] t.Period = Night -> <<20, 0, 0>>
    [] t.Period = SpecificTime -> <<t.Hour, t.Minute, t.Second>>

\* The time returned reads t's year, month and day and t's time of day.
ReadsAsStored(t, tm) ==
  Wall(tm) = [year |-> t.Year, month |-> t.Month, day |-> t.Day,
              hour |-> TimeOfDay(t)[1], min |-> TimeOfDay(t)[2], sec |-> TimeOfDay(t)[3]]

\* C9 as stated: Time.Time() gives the point in time on the record's year,
\* month and day at the canonical hour of a named period (stored hour, minute
\* and second ignored) or at the stored hour, minute and second for
\* SpecificTime, and leaves the record as it was.
C9_TimeDerivation ==
  Op("Time.Time") => ReadsAsStored(res.recv, res.out) /\ res.post = res.recv

\* Year, month and day name a day of the calendar.
ValidDay(t) ==
  /\ t.Month \in 1..12
  /\ t.Day >= 1 /\ t.Day <= daysIn(t.Month, t.Year)

ValidClock(hms) == hms[1] \in 0..23 /\ hms[2] \in 0..59 /\ hms[3] \in 0..59

\* The wall clock (year, month, day, hms) is read at some instant in loc: it
\* is not skipped by a transition of the zone.
ExistsIn(loc, t, hms) ==
  \E off \in {loc.std, loc.dst} :
    Wall(mkTime(NormDay(daysSinceEpoch(t.Year) + daysBefore[t.Month]
                          + (IF isLeap(t.Year) /\ t.Month >= 3 THEN 1 ELSE 0) + t.Day - 1,
                        hms[1] * 3600 + hms[2] * 60 + hms[3] - off), 0, loc))
      = [year |-> t.Year, month |-> t.Month, day |-> t.Day,
         hour |-> hms[1], min |-> hms[2], sec |-> hms[3]]

\* C9, amended: the same, for a record whose year, month and day name a
\* calendar day, whose time of day is within 0-23, 0-59, 0-59, and whose wall
\* clock exists in the local zone.
C9_TimeDerivationInRange ==
  (/\ Op("Time.Time")
   /\ ValidDay(res.recv) /\ ValidClock(TimeOfDay(res.recv))
   /\ ExistsIn(res.arg, res.recv, TimeOfDay(res.recv))) =>
    /\ ReadsAsStored(res.recv, res.out)
    /\ res.out.nsec = 0 /\ res.out.loc = res.arg
    /\ res.post = res.recv

C9_Witness ==
  /\ Op("Time.Time")
  /\ res.recv.Period = Evening /\ res.recv.Hour = 6 /\ res.recv.Minute = 30
  /\ res.recv.Year = 2024 /\ res.recv.Month = 3 /\ res.recv.Day = 10
  /\ Wall(res.out).hour = 17 /\ Wall(res.out).min = 0 /\ Wall(res.out).day = 10

\* The codec type behind each encoder.
EncoderTypes ==
  [ x \in {"Dismissed.MarshalJSON", "Period.MarshalJSON", "Color.MarshalJSON",
           "Timestamp.MarshalJSON"} \cup DOMAIN TagEncoders |->
      CASE x = "Dismissed.MarshalJSON" -> "Dismissed"
        [] x = "Period.MarshalJSON" -> "Period"
        [] x = "Color.MarshalJSON" -> "Color"
        [] x = "Timestamp.MarshalJSON" -> "Timestamp"
        [] x = "TSKind.MarshalJSON" -> "TSKind"
        [] x = "NodeKind.MarshalJSON" -> "NodeKind"
        [] x = "NoteType.MarshalJSON" -> "NoteType"
        [] x = "ListType.MarshalJSON" -> "ListType"
        [] x = "ItemType.MarshalJSON" -> "ItemType" ]

\* C10: whatever the callers do, writing into returned slices included, the
\* package's wire values keep their initial contents, and an encoder returns
\* for a value the bytes it returns for it in isolation.
C10_TablesImmutable ==
  /\ tab = PackageVars
  /\ res.op \in DOMAIN EncoderTypes =>
       res.out = MarshalerCall(PackageVars, EncoderTypes[res.op], res.recv).out

====
